---- MODULE Spec2Model ----
(***************************************************************************)
(* The RayMenu web component (src/unnamed/part_004) as a state machine:    *)
(* open/close lifecycle with the deferred close cleanup, pointer and       *)
(* keyboard handlers, the submenu navigation stack, the spring-load and    *)
(* back-dwell timers and the asynchronous loading of children.             *)
(*                                                                         *)
(* Conventions.                                                            *)
(*  - Indices are the code's 0-based indices (-1 = none); the k-th element *)
(*    of a list is therefore seq[k + 1].                                   *)
(*  - A pointer sample is given in the menu's own polar frame: its angle   *)
(*    (degrees, after _adjustAngleForFlip) and its distance (px) from      *)
(*    _position.  angleFromCenter/distance are functions of the sample and *)
(*    _position only, so every such pair is a sample the browser can send. *)
(*  - A timer is a pending callback; the time at which it fires is not     *)
(*    modelled, it may fire at any step while it is pending.               *)
(*  - NavStackEntry.entryAngle is written but never read by the component  *)
(*    logic (rendering only) and is left out.                              *)
(*  - The configuration (attributes) is the one set at construction,       *)
(*    except radius and inner-radius, which a host session changes.        *)
(*  - A session is driven in one way (inputMode): by mouse or touch, by    *)
(*    the keyboard, through the drag & drop API, or by the keyboard with   *)
(*    the host page assigning items and attributes ("host"); the public    *)
(*    methods, the timers and the promise continuations run in every       *)
(*    session.                                                             *)
(***************************************************************************)
EXTENDS Integers, Sequences, FiniteSets, TLC

(* ------------------------------ bounds --------------------------------- *)
\* loadChildren promises that may be pending at once
MaxLoads == 2
\* 200 ms close-cleanup fallback timers that may be pending at once
MaxCleanups == 1
\* 2000 ms error auto-clear timers that may be pending at once
MaxErrorTimers == 2
\* the digit keys pressed are "1" .. MaxDigit (of "1" .. "9")
MaxDigit == 3
\* the exported functions are called with lists of 0 .. MaxItems items
MaxItems == 4
\* and the hit test at depths 0 .. MaxDepth
MaxDepth == 2

(* ------------------------- program constants --------------------------- *)
\* DEFAULT_CONFIG.radius and DEFAULT_CONFIG.innerRadius
Radius == 120
InnerRadius == 40
CenterDeadzone == 30
InfiniteThreshold == 0
InfiniteSelection == TRUE
\* startAngle = -Math.PI / 2 and sweepAngle = Math.PI * 2, in degrees
StartAngle == -90
SweepAngle == 360
CenterSafeZone == 25
SubmenuRadiusStep == 60
\* px/s
DragThroughVelocityThreshold == 200
\* _dragThroughDistanceThreshold = 0.7, as a percentage
DragThroughDistancePct == 70
\* scroll-behavior default
ScrollBehavior == "close"

(* ------------------------------ the items ------------------------------ *)
\* The caller-supplied items (MenuItem): a parent b with static children (a
\* selectable leaf a and a disabled leaf e), two lazy parents c and d
\* (loadChildren) and a leaf f; g and h are what the loaders deliver, h not
\* selectable.  The menu is given one of four root lists.
ItemIds == {"a", "b", "c", "d", "e", "f", "g", "h"}
NoItem == "-"
RootStaticLazy == <<"b", "c">>
RootLazy == <<"c", "d">>
RootStatic == <<"b", "f">>
RootEmpty == <<>>
\* a root shorter than the submenu of its item
RootSingle == <<"b">>
\* the list a caller assigns to `items` in place of RootStatic, and back
RootSwapped == <<"f", "b">>

\* MenuItem.disabled
Disabled(i) == i = "e"
\* MenuItem.selectable (defaults to true)
Selectable(i) == i # "h"
\* typeof item.loadChildren === "function"
CanLoadChildren(i) == i \in {"c", "d"}
\* MenuItem.children as supplied by the caller (absent = empty)
StaticChildren(i) ==
  CASE i = "b" -> <<"a", "e">>
    [] OTHER -> <<>>
\* the arrays an item's loader may resolve to
LoaderResults(i) ==
  CASE i = "c" -> {<<>>, <<"g">>}
    [] i = "d" -> {<<"h">>}
    [] OTHER -> {<<>>}

(* --------------------------- pointer samples --------------------------- *)
NoPoint == [ang |-> 0, dist |-> -1]
\* the directions of the two sectors of a two-item level, and four
\* distances: inside the center safe zone, in the back zone, in the root
\* ring, in the first submenu ring.  Below the root dead-zone the direction
\* decides nothing, so one direction is sampled there.
PointerAngles == {0, 180}
Points ==
  [ang : {0}, dist : {10, 30}] \cup [ang : PointerAngles, dist : {80, 150}]
ClickDists == {10, 80, 150}
\* milliseconds between two samples (Date.now() differences)
SampleDts == {16, 1000}

(* ------------------------------ events --------------------------------- *)
\* a CustomEvent: its type, the item of its detail and the depth of its detail
Ev(t, i, d) == [type |-> t, item |-> i, depth |-> d]
EvOpen == Ev("ray-open", NoItem, -1)
EvClose == Ev("ray-close", NoItem, -1)
EvSelect(i) == Ev("ray-select", i, -1)
EvDrop(i) == Ev("ray-drop", i, -1)
EvSpringLoad(i) == Ev("ray-spring-load", i, -1)
EvEnter(i, d) == Ev("ray-submenu-enter", i, d)
EvExit(i, d) == Ev("ray-submenu-exit", i, d)
EvLoadStart(i) == Ev("ray-load-start", i, -1)
EvLoadComplete(i) == Ev("ray-load-complete", i, -1)
EvLoadError(i) == Ev("ray-load-error", i, -1)

Range(s) == {s[k] : k \in DOMAIN s}

VARIABLES
  inputMode,             \* environment: how this session drives the menu
  items,                 \* _items
  rootAtOpen,            \* history: _items as the last open() copied it
  radius,                \* _config.radius
  innerRadius,           \* _config.innerRadius
  edgeBehavior,          \* _config.edgeBehavior
  position,              \* _position
  flipState,             \* _flipState
  openedAt,              \* history: the (x, y) of the last open()
  isStatic,              \* _isStatic
  defaultOpen,           \* _defaultOpen
  instantDragThrough,    \* _instantDragThrough
  isOpen,                \* _isOpen
  isClosing,             \* _isClosing
  isDropTarget,          \* _isDropTarget
  listening,             \* the global pointermove/click/keydown/scroll listeners
  container,             \* .ray-menu-container: "none", "shown" or "closing"
  cleanupTimers,         \* pending setTimeout(cleanup, 200)
  hoveredIndex,          \* _hoveredIndex
  focusedIndex,          \* _focusedIndex
  keyboardActive,        \* _keyboardActive
  pointerPosition,       \* _pointerPosition (NoPoint = null)
  lastSample,            \* last entry of _positionHistory (NoPoint = empty)
  navStack,              \* _navStack: entries [item, items]
  currentItems,          \* _currentItems
  submenuEntryConfirmed, \* _submenuEntryConfirmed
  springLoadItemId,      \* _springLoadItemId (NoItem = null)
  springPending,         \* the spring-load timeout is pending
  springStale,           \* history: close() was called since it was armed
  backDwellTimer,        \* _backDwellTimer !== null
  dwellStale,            \* history: close() was called since it was armed
  isLoading,             \* _isLoading
  loadingItemId,         \* _loadingItemId (NoItem = null)
  loadError,             \* _loadError !== null
  errorTimers,           \* pending error auto-clear timeouts
  children,              \* item.children of every item (<<>> = absent or empty)
  loads,                 \* the pending loadChildren promises
  applied,               \* history: <<item, result was non-empty>> of applied loads
  emitted,               \* the events dispatched by the last handler, in order
  lastOp,                \* history: the last handler and what it was given
  call,                  \* the last call of an exported function: its arguments
  returned               \* and what it returned: <<value>>, <<>> before it has

vars == <<inputMode, items, rootAtOpen, radius, innerRadius, edgeBehavior,
          position, flipState, openedAt, isStatic, defaultOpen, instantDragThrough, isOpen, isClosing,
          isDropTarget, listening, container, cleanupTimers, hoveredIndex,
          focusedIndex, keyboardActive, pointerPosition, lastSample, navStack,
          currentItems, submenuEntryConfirmed, springLoadItemId, springPending,
          springStale, backDwellTimer, dwellStale, isLoading, loadingItemId,
          loadError, errorTimers, children, loads, applied, emitted, lastOp,
          call, returned>>

\* DEFAULT_CONFIG.smartFlip and .edgeDetection: nothing assigns them
SmartFlip == TRUE
EdgeDetection == TRUE
\* window.innerWidth and window.innerHeight
Window == [width |-> 600, height |-> 600]
\* the point most callers open the menu at, and the points near the edges
Center == [x |-> 300, y |-> 300]
OpenPoints == {Center, [x |-> 580, y |-> 300], [x |-> 300, y |-> 590],
               [x |-> 10, y |-> 10]}
\* the default of detectEdgeConstraints' padding parameter
EdgePadding == 8

NoCall == [fn |-> "-"]
NoLoad == [item |-> NoItem, confirmed |-> FALSE, depth |-> -1,
           closed |-> FALSE, superseded |-> FALSE]
Op(o, i, f, l) == [op |-> o, item |-> i, flag |-> f, load |-> l]

(* ----------------------- the component as a record --------------------- *)
\* The fields of `this`, read at the start of a handler.
Self ==
  [items |-> items, rootAtOpen |-> rootAtOpen, radius |-> radius,
   innerRadius |-> innerRadius, edgeBehavior |-> edgeBehavior,
   position |-> position, flipState |-> flipState, openedAt |-> openedAt,
   smartFlip |-> SmartFlip, edgeDetection |-> EdgeDetection,
   isStatic |-> isStatic, defaultOpen |-> defaultOpen,
   instantDragThrough |-> instantDragThrough, isOpen |-> isOpen,
   isClosing |-> isClosing, isDropTarget |-> isDropTarget,
   listening |-> listening, container |-> container,
   cleanupTimers |-> cleanupTimers, hoveredIndex |-> hoveredIndex,
   focusedIndex |-> focusedIndex, keyboardActive |-> keyboardActive,
   pointerPosition |-> pointerPosition, lastSample |-> lastSample,
   navStack |-> navStack, currentItems |-> currentItems,
   submenuEntryConfirmed |-> submenuEntryConfirmed,
   springLoadItemId |-> springLoadItemId, springPending |-> springPending,
   springStale |-> springStale, backDwellTimer |-> backDwellTimer,
   dwellStale |-> dwellStale, isLoading |-> isLoading,
   loadingItemId |-> loadingItemId, loadError |-> loadError,
   errorTimers |-> errorTimers, children |-> children, loads |-> loads,
   applied |-> applied, emitted |-> <<>>,
   infiniteSelection |-> InfiniteSelection,
   centerDeadzone |-> CenterDeadzone,
   infiniteThreshold |-> InfiniteThreshold]

\* The fields of `this`, written back at the end of a handler.  A handler is
\* enabled only while the pending timers and promises stay within the bounds.
Update(s, op) ==
  /\ Len(s.loads) <= MaxLoads
  /\ inputMode' = inputMode
  /\ s.cleanupTimers <= MaxCleanups
  /\ s.errorTimers <= MaxErrorTimers
  /\ items' = s.items
  /\ rootAtOpen' = s.rootAtOpen
  /\ radius' = s.radius
  /\ innerRadius' = s.innerRadius
  /\ edgeBehavior' = s.edgeBehavior
  /\ position' = s.position
  /\ flipState' = s.flipState
  /\ openedAt' = s.openedAt
  /\ isStatic' = s.isStatic
  /\ defaultOpen' = s.defaultOpen
  /\ instantDragThrough' = s.instantDragThrough
  /\ isOpen' = s.isOpen
  /\ isClosing' = s.isClosing
  /\ isDropTarget' = s.isDropTarget
  /\ listening' = s.listening
  /\ container' = s.container
  /\ cleanupTimers' = s.cleanupTimers
  /\ hoveredIndex' = s.hoveredIndex
  /\ focusedIndex' = s.focusedIndex
  /\ keyboardActive' = s.keyboardActive
  /\ pointerPosition' = s.pointerPosition
  /\ lastSample' = s.lastSample
  /\ navStack' = s.navStack
  /\ currentItems' = s.currentItems
  /\ submenuEntryConfirmed' = s.submenuEntryConfirmed
  /\ springLoadItemId' = s.springLoadItemId
  /\ springPending' = s.springPending
  /\ springStale' = s.springStale
  /\ backDwellTimer' = s.backDwellTimer
  /\ dwellStale' = s.dwellStale
  /\ isLoading' = s.isLoading
  /\ loadingItemId' = s.loadingItemId
  /\ loadError' = s.loadError
  /\ errorTimers' = s.errorTimers
  /\ children' = s.children
  /\ loads' = s.loads
  /\ applied' = s.applied
  /\ emitted' = s.emitted
  /\ lastOp' = op
  /\ UNCHANGED <<call, returned>>

\* this.dispatchEvent(new CustomEvent(...))
dispatchEvent(s, e) == [s EXCEPT !.emitted = Append(@, e)]

(* ------------------------------ geometry ------------------------------- *)
\* the % of the language: the remainder has the sign of the dividend
Rem(a, n) == IF a >= 0 THEN a % n ELSE -((-a) % n)

\* normalizeAngle: to [0, 360)
normalizeAngle(angle) == Rem(Rem(angle, 360) + 360, 360)

\* angleDifference: the signed shortest difference, in (-180, 180]
angleDifference(angle1, angle2) ==
  LET diff == normalizeAngle(angle2 - angle1)
  IN IF diff > 180 THEN diff - 360 ELSE diff

Abs(x) == IF x < 0 THEN -x ELSE x

\* distributeAngles: the angle of each of `count` items (a sequence)
distributeAngles(count, startAngle, sweepAngle) ==
  IF count <= 0 THEN <<>>
  ELSE IF count = 1 THEN <<startAngle>>
  ELSE LET step == sweepAngle \div count
       IN [i \in 1..count |-> startAngle + step * (i - 1) + step \div 2]

\* the for loop of getClosestItemIndex with `diff <= smallestDiff`
RECURSIVE closestFrom_LastWins(_, _, _, _, _)
closestFrom_LastWins(pointerAngle, itemAngles, i, closestIndex,
                     smallestDiff) ==
  IF i >= Len(itemAngles) THEN closestIndex
  ELSE LET diff == Abs(angleDifference(pointerAngle, itemAngles[i + 1]))
       IN IF diff <= smallestDiff
            THEN closestFrom_LastWins(pointerAngle, itemAngles, i + 1, i, diff)
            ELSE closestFrom_LastWins(pointerAngle, itemAngles, i + 1,
                                      closestIndex, smallestDiff)

\* the for loop of getClosestItemIndex from index i (0-based) on
RECURSIVE closestFrom(_, _, _, _, _)
closestFrom(pointerAngle, itemAngles, i, closestIndex, smallestDiff) ==
  IF i >= Len(itemAngles) THEN closestIndex
  ELSE LET diff == Abs(angleDifference(pointerAngle, itemAngles[i + 1]))
       IN IF diff < smallestDiff
            THEN closestFrom(pointerAngle, itemAngles, i + 1, i, diff)
            ELSE closestFrom(pointerAngle, itemAngles, i + 1, closestIndex,
                             smallestDiff)

\* getClosestItemIndex whose loop lets the last of several closest items win
getClosestItemIndex_LastWins(pointerAngle, itemAngles) ==
  IF Len(itemAngles) = 0 THEN -1
  ELSE closestFrom_LastWins(
         pointerAngle, itemAngles, 1, 0,
         Abs(angleDifference(pointerAngle, itemAngles[1])))

\* getClosestItemIndex
getClosestItemIndex(pointerAngle, itemAngles) ==
  IF Len(itemAngles) = 0 THEN -1
  ELSE closestFrom(pointerAngle, itemAngles, 1, 0,
                   Abs(angleDifference(pointerAngle, itemAngles[1])))

\* _getCurrentRadius
getCurrentRadius(s) == s.radius + Len(s.navStack) * SubmenuRadiusStep

\* _getCurrentInnerRadius
getCurrentInnerRadius(s) ==
  IF Len(s.navStack) = 0 THEN s.innerRadius
  ELSE s.radius + (Len(s.navStack) - 1) * SubmenuRadiusStep

Max(x, y) == IF x > y THEN x ELSE y

\* _adjustAngleForFlip
adjustAngleForFlip(s, angle) ==
  LET adjusted == IF s.flipState.flipX THEN 180 - angle ELSE angle
  IN IF s.flipState.flipY THEN -adjusted ELSE adjusted

\* _calculateHoveredIndex with the 1.5 * currentRadius limit applied whatever
\* infiniteSelection says
calculateHoveredIndex_AlwaysLimited(s, pointer) ==
  LET dist == pointer.dist
      currentInnerRadius == getCurrentInnerRadius(s)
      currentRadius == getCurrentRadius(s)
      deadzone == IF s.infiniteSelection
                    THEN Max(s.centerDeadzone, currentInnerRadius)
                    ELSE currentInnerRadius
  IN IF dist < deadzone THEN -1
     ELSE IF 2 * dist > 3 * currentRadius THEN -1
     ELSE IF s.infiniteSelection /\ s.infiniteThreshold > 0
             /\ dist > s.infiniteThreshold THEN -1
     ELSE getClosestItemIndex(
            adjustAngleForFlip(s, pointer.ang),
            distributeAngles(Len(s.currentItems), StartAngle, SweepAngle))

\* _calculateHoveredIndex
calculateHoveredIndex(s, pointer) ==
  LET dist == pointer.dist
      currentInnerRadius == getCurrentInnerRadius(s)
      currentRadius == getCurrentRadius(s)
      deadzone == IF s.infiniteSelection
                    THEN Max(s.centerDeadzone, currentInnerRadius)
                    ELSE currentInnerRadius
  IN IF dist < deadzone THEN -1
     ELSE IF ~s.infiniteSelection /\ 2 * dist > 3 * currentRadius THEN -1
     ELSE IF s.infiniteSelection /\ s.infiniteThreshold > 0
             /\ dist > s.infiniteThreshold THEN -1
     ELSE getClosestItemIndex(
            adjustAngleForFlip(s, pointer.ang),
            distributeAngles(Len(s.currentItems), StartAngle, SweepAngle))

\* hoveredIndex of the useRadialMenu hook, for an open menu with a pointer
\* position (the hook has one ring: config.radius and config.innerRadius)
useRadialMenu_hoveredIndex(config, count, pointer) ==
  LET dist == pointer.dist
      deadzone == IF config.infiniteSelection THEN config.centerDeadzone
                  ELSE config.innerRadius
  IN IF dist < deadzone THEN -1
     ELSE IF ~config.infiniteSelection /\ 2 * dist > 3 * config.radius THEN -1
     ELSE IF config.infiniteSelection /\ config.infiniteThreshold > 0
             /\ dist > config.infiniteThreshold THEN -1
     ELSE getClosestItemIndex(
            pointer.ang, distributeAngles(count, StartAngle, SweepAngle))

\* getAvailableSpace
getAvailableSpace(point, viewport, padding) ==
  [top |-> point.y - padding,
   right |-> viewport.width - point.x - padding,
   bottom |-> viewport.height - point.y - padding,
   left |-> point.x - padding]

\* detectEdgeConstraints whose right-edge offset points outward
detectEdgeConstraints_RightOutward(center, needed, viewport, padding) ==
  LET available == getAvailableSpace(center, viewport, padding)
      constrained == [top |-> available.top < needed,
                      right |-> available.right < needed,
                      bottom |-> available.bottom < needed,
                      left |-> available.left < needed]
  IN [constrained |-> constrained,
      available |-> available,
      offset |->
        [x |-> IF constrained.left THEN needed - available.left
               ELSE IF constrained.right THEN needed - available.right
               ELSE 0,
         y |-> IF constrained.top THEN needed - available.top
               ELSE IF constrained.bottom THEN -(needed - available.bottom)
               ELSE 0],
      isConstrained |-> constrained.top \/ constrained.right
                          \/ constrained.bottom \/ constrained.left]

\* detectEdgeConstraints (needed is its radius argument)
detectEdgeConstraints(center, needed, viewport, padding) ==
  LET available == getAvailableSpace(center, viewport, padding)
      constrained == [top |-> available.top < needed,
                      right |-> available.right < needed,
                      bottom |-> available.bottom < needed,
                      left |-> available.left < needed]
  IN [constrained |-> constrained,
      available |-> available,
      offset |->
        [x |-> IF constrained.left THEN needed - available.left
               ELSE IF constrained.right THEN -(needed - available.right)
               ELSE 0,
         y |-> IF constrained.top THEN needed - available.top
               ELSE IF constrained.bottom THEN -(needed - available.bottom)
               ELSE 0],
      isConstrained |-> constrained.top \/ constrained.right
                          \/ constrained.bottom \/ constrained.left]

\* getFlipStateFromMode (the transform string is left out)
getFlipStateFromMode(mode) ==
  LET flipX == mode = "horizontal" \/ mode = "both"
      flipY == mode = "vertical" \/ mode = "both"
  IN [mode |-> mode, flipX |-> flipX, flipY |-> flipY,
      scaleX |-> IF flipX THEN -1 ELSE 1,
      scaleY |-> IF flipY THEN -1 ELSE 1]

\* calculateSmartFlip that flips whenever the edge is constrained
calculateSmartFlip_NoSpaceTest(_position, _menuRadius, edgeState) ==
  LET flipX == edgeState.constrained.right
      flipY == edgeState.constrained.bottom
  IN getFlipStateFromMode(IF flipX /\ flipY THEN "both"
                          ELSE IF flipX THEN "horizontal"
                          ELSE IF flipY THEN "vertical"
                          ELSE "none")

\* calculateSmartFlip
calculateSmartFlip(_position, _menuRadius, edgeState) ==
  LET available == edgeState.available
      constrained == edgeState.constrained
      flipX == constrained.right /\ available.left > available.right
      flipY == constrained.bottom /\ available.top > available.bottom
  IN getFlipStateFromMode(IF flipX /\ flipY THEN "both"
                          ELSE IF flipX THEN "horizontal"
                          ELSE IF flipY THEN "vertical"
                          ELSE "none")

\* Math.cos of a multiple of 180 degrees
Cos(angle) == IF normalizeAngle(angle) = 0 THEN 1 ELSE -1

\* calculateVelocity and the radial component of _checkDragThrough:
\* (vx * cos(angle) + vy * sin(angle)) > threshold, where v = (cur - prev) / dt
\* and angle is the angle of cur, i.e. the outward displacement
\* cur.dist - prev.dist * cos(cur.ang - prev.ang) per dt (ms) in px/s.
velocityTrigger(prev, cur, dt) ==
  IF prev = NoPoint \/ dt <= 0 THEN FALSE
  ELSE (cur.dist - prev.dist * Cos(cur.ang - prev.ang)) * 1000
         > DragThroughVelocityThreshold * dt

(* --------------------------- item predicates --------------------------- *)
\* item.children && item.children.length > 0
hasChildren(s, item) == s.children[item] # <<>>

\* getHoveredItem (NoItem = null)
getHoveredItem(s) ==
  IF s.hoveredIndex >= 0 /\ s.hoveredIndex < Len(s.currentItems)
    THEN s.currentItems[s.hoveredIndex + 1]
    ELSE NoItem

\* Array.prototype.findIndex by id
findIndex(list, id) ==
  IF \E k \in 1..Len(list) : list[k] = id
    THEN (CHOOSE k \in 1..Len(list) :
            list[k] = id /\ \A j \in 1..(k - 1) : list[j] # id) - 1
    ELSE -1

(* ------------------------- rendering and timers ------------------------ *)
\* _render: the container exists iff the menu is open with a non-empty list
render(s) ==
  [s EXCEPT !.container =
     IF s.isOpen /\ s.currentItems # <<>> THEN "shown" ELSE "none"]

\* _clearSpringLoad
clearSpringLoad(s) ==
  [s EXCEPT !.springPending = FALSE, !.springLoadItemId = NoItem,
            !.springStale = FALSE]

\* _clearBackDwell
clearBackDwell(s) ==
  [s EXCEPT !.backDwellTimer = FALSE, !.dwellStale = FALSE]

(* ----------------------------- open / close ---------------------------- *)
\* open(x, y) without the reset of the navigation stack
open_KeepStack(s, x, y) ==
  LET at == [x |-> x, y |-> y]
      edgeState == detectEdgeConstraints(at, s.radius, Window, EdgePadding)
      s0 == [s EXCEPT
               !.openedAt = at,
               !.flipState =
                 IF s.edgeBehavior = "flip" \/ s.smartFlip
                   THEN calculateSmartFlip(at, s.radius, edgeState)
                   ELSE @,
               !.position =
                 IF s.edgeBehavior = "shift" \/ s.edgeDetection
                   THEN [x |-> x + edgeState.offset.x,
                         y |-> y + edgeState.offset.y]
                   ELSE at]
      s1 == [s0 EXCEPT !.isOpen = TRUE, !.hoveredIndex = -1,
                      !.currentItems = s.items, !.rootAtOpen = s.items,
                      !.submenuEntryConfirmed = TRUE]
      s2 == [render(s1) EXCEPT !.listening = TRUE]
  IN dispatchEvent(s2, EvOpen)

\* open(x, y)
open(s, x, y) ==
  LET at == [x |-> x, y |-> y]
      edgeState == detectEdgeConstraints(at, s.radius, Window, EdgePadding)
      s0 == [s EXCEPT
               !.openedAt = at,
               !.flipState =
                 IF s.edgeBehavior = "flip" \/ s.smartFlip
                   THEN calculateSmartFlip(at, s.radius, edgeState)
                   ELSE @,
               !.position =
                 IF s.edgeBehavior = "shift" \/ s.edgeDetection
                   THEN [x |-> x + edgeState.offset.x,
                         y |-> y + edgeState.offset.y]
                   ELSE at]
      s1 == [s0 EXCEPT !.isOpen = TRUE, !.hoveredIndex = -1,
                      !.navStack = <<>>, !.currentItems = s.items,
                      !.rootAtOpen = s.items,
                      !.submenuEntryConfirmed = TRUE]
      s2 == [render(s1) EXCEPT !.listening = TRUE]
  IN dispatchEvent(s2, EvOpen)

\* the cleanup closure of close()
cleanup(s) ==
  LET s1 == [s EXCEPT !.isOpen = FALSE, !.isClosing = FALSE,
                      !.isDropTarget = FALSE, !.hoveredIndex = -1,
                      !.focusedIndex = -1, !.keyboardActive = FALSE,
                      !.isLoading = FALSE, !.loadingItemId = NoItem,
                      !.loadError = FALSE, !.pointerPosition = NoPoint,
                      !.lastSample = NoPoint, !.navStack = <<>>,
                      !.currentItems = <<>>]
  IN [clearBackDwell(clearSpringLoad(s1)) EXCEPT !.container = "none"]

\* history: a close() was called while these were pending
markClosed(s) ==
  [s EXCEPT !.loads = [k \in DOMAIN @ |-> [@[k] EXCEPT !.closed = TRUE]],
            !.springStale = s.springPending,
            !.dwellStale = s.backDwellTimer]

\* close()
close(s) ==
  IF s.defaultOpen /\ s.isStatic
    THEN render([s EXCEPT !.hoveredIndex = -1, !.focusedIndex = -1,
                          !.keyboardActive = FALSE, !.navStack = <<>>,
                          !.currentItems = s.items])
    ELSE LET s1 == [s EXCEPT !.listening = FALSE, !.isClosing = TRUE]
             s2 == IF s.isDropTarget THEN cleanup(s1)
                   ELSE IF s.container # "none"
                     THEN [s1 EXCEPT !.container = "closing",
                                     !.cleanupTimers = @ + 1]
                   ELSE cleanup(s1)
         IN dispatchEvent(markClosed(s2), EvClose)

(* -------------------------- submenu navigation ------------------------- *)
\* _performSubmenuEntry snapshotting the root list instead of the active one
performSubmenuEntry_SnapshotsRoot(s, item, confirmedEntry) ==
  IF s.children[item] = <<>> THEN s
  ELSE LET s1 == [s EXCEPT
                    !.navStack = Append(@, [item |-> item,
                                            items |-> s.items]),
                    !.currentItems = s.children[item],
                    !.hoveredIndex = -1,
                    !.focusedIndex = IF s.keyboardActive THEN 0 ELSE -1,
                    !.submenuEntryConfirmed = confirmedEntry]
           s2 == render(clearBackDwell(clearSpringLoad(s1)))
       IN dispatchEvent(s2, EvEnter(item, Len(s2.navStack)))

\* _performSubmenuEntry
performSubmenuEntry(s, item, confirmedEntry) ==
  IF s.children[item] = <<>> THEN s
  ELSE LET s1 == [s EXCEPT
                    !.navStack = Append(@, [item |-> item,
                                            items |-> s.currentItems]),
                    !.currentItems = s.children[item],
                    !.hoveredIndex = -1,
                    !.focusedIndex = IF s.keyboardActive THEN 0 ELSE -1,
                    !.submenuEntryConfirmed = confirmedEntry]
           s2 == render(clearBackDwell(clearSpringLoad(s1)))
       IN dispatchEvent(s2, EvEnter(item, Len(s2.navStack)))

\* _exitSubmenu popping the entry without restoring its items
exitSubmenu_KeepsItems(s) ==
  IF Len(s.navStack) = 0 THEN s
  ELSE LET entry == s.navStack[Len(s.navStack)]
           s1 == [s EXCEPT !.navStack = SubSeq(@, 1, Len(@) - 1),
                           !.hoveredIndex = -1]
       IN dispatchEvent(render(clearSpringLoad(s1)),
                        EvExit(entry.item, Len(s1.navStack)))

\* _exitSubmenu reporting the depth it left instead of the depth it reached
exitSubmenu_DepthBefore(s) ==
  IF Len(s.navStack) = 0 THEN s
  ELSE LET entry == s.navStack[Len(s.navStack)]
           s1 == [s EXCEPT
                    !.navStack = SubSeq(@, 1, Len(@) - 1),
                    !.currentItems = entry.items,
                    !.hoveredIndex = -1,
                    !.focusedIndex = IF s.keyboardActive
                                       THEN findIndex(entry.items, entry.item)
                                       ELSE -1]
       IN dispatchEvent(render(clearSpringLoad(s1)),
                        EvExit(entry.item, Len(s.navStack)))

\* _exitSubmenu (its boolean result is Len(s.navStack) > 0)
exitSubmenu(s) ==
  IF Len(s.navStack) = 0 THEN s
  ELSE LET entry == s.navStack[Len(s.navStack)]
           s1 == [s EXCEPT
                    !.navStack = SubSeq(@, 1, Len(@) - 1),
                    !.currentItems = entry.items,
                    !.hoveredIndex = -1,
                    !.focusedIndex = IF s.keyboardActive
                                       THEN findIndex(entry.items, entry.item)
                                       ELSE -1]
           s2 == render(clearSpringLoad(s1))
       IN dispatchEvent(s2, EvExit(entry.item, Len(s2.navStack)))

\* goToRoot: while (this._navStack.length > 0) this._exitSubmenu()
RECURSIVE goToRoot(_)
goToRoot(s) == IF Len(s.navStack) = 0 THEN s ELSE goToRoot(exitSubmenu(s))

(* ---------------------------- async loading ---------------------------- *)
\* _loadChildrenAsync up to its await: the loader is called and its promise
\* is pending from here on
loadChildrenAsync(s, item, confirmedEntry) ==
  IF ~CanLoadChildren(item) THEN s
  ELSE LET s1 == [s EXCEPT
                    !.isLoading = TRUE,
                    !.loadingItemId = item,
                    !.loadError = FALSE,
                    !.loads = Append(
                      [k \in DOMAIN @ |->
                         IF @[k].item # item
                           THEN [@[k] EXCEPT !.superseded = TRUE]
                           ELSE @[k]],
                      [item |-> item, confirmed |-> confirmedEntry,
                       depth |-> Len(s.navStack), closed |-> FALSE,
                       superseded |-> FALSE])]
       IN dispatchEvent(s1, EvLoadStart(item))

\* the guard without its comparison of the item in flight
loadStillCurrent_NoIdCheck(s, item) == s.isOpen

\* the "still relevant" guard of both continuations of _loadChildrenAsync:
\* !(!this._isOpen || this._loadingItemId !== item.id)
loadStillCurrent(s, item) == s.isOpen /\ s.loadingItemId = item

\* the fulfilled continuation pushing whatever array it was given
loadResolved_PushAlways(s, load, result) ==
  IF ~loadStillCurrent(s, load.item) THEN s
  ELSE LET s1 == [s EXCEPT !.children[load.item] = result,
                           !.isLoading = FALSE,
                           !.loadingItemId = NoItem,
                           !.applied = @ \cup {<<load.item, result # <<>>>>}]
           s2 == dispatchEvent(s1, EvLoadComplete(load.item))
           s3 == [s2 EXCEPT
                    !.navStack = Append(@, [item |-> load.item,
                                            items |-> s2.currentItems]),
                    !.currentItems = result,
                    !.hoveredIndex = -1,
                    !.submenuEntryConfirmed = load.confirmed]
       IN dispatchEvent(render(s3), EvEnter(load.item, Len(s3.navStack)))

\* _loadChildrenAsync after its await, the promise fulfilled with `result`
loadResolved(s, load, result) ==
  IF ~loadStillCurrent(s, load.item) THEN s
  ELSE LET s1 == [s EXCEPT !.children[load.item] = result,
                           !.isLoading = FALSE,
                           !.loadingItemId = NoItem,
                           !.applied = @ \cup {<<load.item, result # <<>>>>}]
           s2 == dispatchEvent(s1, EvLoadComplete(load.item))
       IN IF Len(result) > 0
            THEN performSubmenuEntry(s2, load.item, load.confirmed)
            ELSE s2

\* the catch continuation leaving the loading flag set
loadRejected_KeepsLoading(s, load) ==
  IF ~loadStillCurrent(s, load.item) THEN s
  ELSE LET s1 == [s EXCEPT !.loadingItemId = NoItem,
                           !.loadError = TRUE,
                           !.errorTimers = @ + 1]
       IN dispatchEvent(s1, EvLoadError(load.item))

\* _loadChildrenAsync after its await, the promise rejected (catch)
loadRejected(s, load) ==
  IF ~loadStillCurrent(s, load.item) THEN s
  ELSE LET s1 == [s EXCEPT !.isLoading = FALSE,
                           !.loadingItemId = NoItem,
                           !.loadError = TRUE,
                           !.errorTimers = @ + 1]
       IN dispatchEvent(s1, EvLoadError(load.item))

\* the error auto-clear callback: if (this._loadError) this._loadError = null
errorAutoClear(s) ==
  [s EXCEPT !.loadError = FALSE, !.errorTimers = @ - 1]

\* _enterSubmenu calling the loader whenever there is one, cached or not
enterSubmenu_NoCache(s, item, confirmedEntry) ==
  IF ~hasChildren(s, item) /\ ~CanLoadChildren(item) THEN s
  ELSE IF CanLoadChildren(item)
    THEN loadChildrenAsync(s, item, confirmedEntry)
  ELSE performSubmenuEntry(s, item, confirmedEntry)

\* _enterSubmenu up to its first await
enterSubmenu(s, item, confirmedEntry) ==
  IF ~hasChildren(s, item) /\ ~CanLoadChildren(item) THEN s
  ELSE IF ~hasChildren(s, item) /\ CanLoadChildren(item)
    THEN loadChildrenAsync(s, item, confirmedEntry)
  ELSE performSubmenuEntry(s, item, confirmedEntry)

\* _selectItem without its selectable === false test
selectItem_IgnoresSelectable(s, item) ==
  IF hasChildren(s, item) \/ CanLoadChildren(item)
    THEN enterSubmenu(s, item, TRUE)
  ELSE close(dispatchEvent(s, EvSelect(item)))

\* _selectItem
selectItem(s, item) ==
  IF hasChildren(s, item) \/ CanLoadChildren(item)
    THEN enterSubmenu(s, item, TRUE)
  ELSE IF ~Selectable(item) THEN s
  ELSE close(dispatchEvent(s, EvSelect(item)))

(* ------------------------------- gestures ------------------------------ *)
\* _trackVelocity: the sample joins the history
trackVelocity(s) ==
  IF s.pointerPosition = NoPoint THEN s
  ELSE [s EXCEPT !.lastSample = s.pointerPosition]

\* _checkSubmenuEntryConfirmation
checkSubmenuEntryConfirmation(s) ==
  IF s.submenuEntryConfirmed \/ Len(s.navStack) = 0 THEN s
  ELSE IF s.pointerPosition = NoPoint THEN s
  ELSE IF /\ s.pointerPosition.dist >= getCurrentInnerRadius(s)
          /\ 10 * s.pointerPosition.dist <= 12 * getCurrentRadius(s)
    THEN [s EXCEPT !.submenuEntryConfirmed = TRUE]
  ELSE s

\* _checkDragThrough without its distance trigger
checkDragThrough_VelocityOnly(s, fast) ==
  IF ~s.instantDragThrough THEN s
  ELSE IF s.pointerPosition = NoPoint \/ s.hoveredIndex < 0 THEN s
  ELSE LET item == getHoveredItem(s)
       IN IF item = NoItem THEN s
          ELSE IF ~hasChildren(s, item) /\ ~CanLoadChildren(item) THEN s
          ELSE IF fast THEN enterSubmenu(s, item, FALSE)
          ELSE s

\* _checkDragThrough; `fast` is velocityTrigger for the sample just tracked
checkDragThrough(s, fast) ==
  IF ~s.instantDragThrough THEN s
  ELSE IF s.pointerPosition = NoPoint \/ s.hoveredIndex < 0 THEN s
  ELSE LET item == getHoveredItem(s)
       IN IF item = NoItem THEN s
          ELSE IF ~hasChildren(s, item) /\ ~CanLoadChildren(item) THEN s
          ELSE IF /\ fast
                  /\ 100 * s.pointerPosition.dist
                       > getCurrentRadius(s) * DragThroughDistancePct
            THEN enterSubmenu(s, item, FALSE)
          ELSE s

\* _checkDragBack without the entry-confirmation gate
checkDragBack_NoConfirmGate(s) ==
  IF s.pointerPosition = NoPoint \/ Len(s.navStack) = 0 THEN s
  ELSE LET dist == s.pointerPosition.dist
       IN IF dist < s.innerRadius /\ dist >= CenterSafeZone
            THEN IF ~s.backDwellTimer
                   THEN [s EXCEPT !.backDwellTimer = TRUE, !.dwellStale = FALSE]
                   ELSE s
          ELSE clearBackDwell(s)

\* _checkDragBack
checkDragBack(s) ==
  IF s.pointerPosition = NoPoint \/ Len(s.navStack) = 0 THEN s
  ELSE IF ~s.submenuEntryConfirmed THEN s
  ELSE LET dist == s.pointerPosition.dist
           backZoneOuter == s.innerRadius
       IN IF dist < CenterSafeZone THEN clearBackDwell(s)
          ELSE IF dist < backZoneOuter /\ dist >= CenterSafeZone
            THEN IF ~s.backDwellTimer
                   THEN [s EXCEPT !.backDwellTimer = TRUE, !.dwellStale = FALSE]
                   ELSE s
          ELSE clearBackDwell(s)

\* _handleSpringLoad
handleSpringLoad(s) ==
  LET item == getHoveredItem(s)
      s1 == IF item = NoItem \/ item # s.springLoadItemId
              THEN clearSpringLoad(s) ELSE s
  IN IF /\ item # NoItem
        /\ (hasChildren(s, item) \/ CanLoadChildren(item))
        /\ item # s1.springLoadItemId
       THEN [s1 EXCEPT !.springLoadItemId = item, !.springPending = TRUE,
                       !.springStale = FALSE]
       ELSE s1

\* updateHoverFromPoint(x, y)
updateHoverFromPoint(s, p, dt) ==
  IF ~s.isOpen THEN s
  ELSE LET fast == velocityTrigger(s.lastSample, p, dt)
           s1 == trackVelocity([s EXCEPT !.pointerPosition = p])
           s2 == checkDragBack(
                   checkDragThrough(checkSubmenuEntryConfirmation(s1), fast))
           newIndex == calculateHoveredIndex(s2, p)
       IN IF newIndex # s2.hoveredIndex
            THEN handleSpringLoad([s2 EXCEPT !.hoveredIndex = newIndex])
            ELSE s2

\* _onPointerMove (show-trail-path and show-anchor-line are off)
onPointerMove(s, p, dt) ==
  IF ~s.isOpen THEN s
  ELSE LET newIndex == calculateHoveredIndex(s, p)
           s1 == [s EXCEPT !.pointerPosition = p]
           s2 == IF s1.keyboardActive
                   THEN [s1 EXCEPT !.keyboardActive = FALSE,
                                   !.focusedIndex = -1]
                   ELSE s1
           s3 == IF newIndex # s2.hoveredIndex
                   THEN [s2 EXCEPT !.hoveredIndex = newIndex] ELSE s2
       IN IF s3.isDropTarget
            THEN checkDragBack(
                   checkDragThrough(
                     checkSubmenuEntryConfirmation(trackVelocity(s3)),
                     velocityTrigger(s.lastSample, p, dt)))
            ELSE s3

(* ------------------------ click, keyboard, scroll ---------------------- *)
\* _onClick whose centre click closes at every depth
onClick_CenterCloses(s, dist) ==
  IF ~s.isOpen THEN s
  ELSE IF dist < getCurrentInnerRadius(s) THEN close(s)
  ELSE IF s.hoveredIndex >= 0 /\ s.hoveredIndex < Len(s.currentItems)
    THEN LET item == s.currentItems[s.hoveredIndex + 1]
         IN IF ~Disabled(item) THEN selectItem(s, item) ELSE s
  ELSE close(s)

\* _onClick; dist is the click's distance from _position
onClick(s, dist) ==
  IF ~s.isOpen THEN s
  ELSE IF dist < getCurrentInnerRadius(s)
    THEN IF Len(s.navStack) > 0 THEN exitSubmenu(s) ELSE close(s)
  ELSE IF s.hoveredIndex >= 0 /\ s.hoveredIndex < Len(s.currentItems)
    THEN LET item == s.currentItems[s.hoveredIndex + 1]
         IN IF ~Disabled(item) THEN selectItem(s, item) ELSE s
  ELSE close(s)

\* _activateKeyboardMode
activateKeyboardMode(s) ==
  IF ~s.keyboardActive
    THEN [s EXCEPT !.keyboardActive = TRUE,
                   !.focusedIndex = IF @ < 0 THEN 0 ELSE @]
    ELSE s

\* the do-while of _moveFocus: the index it stops at
RECURSIVE nextFocus(_, _, _, _)
nextFocus(list, index, delta, attempts) ==
  LET itemCount == Len(list)
      newIndex == (index + delta + itemCount) % itemCount
  IN IF Disabled(list[newIndex + 1]) /\ attempts + 1 < itemCount
       THEN nextFocus(list, newIndex, delta, attempts + 1)
       ELSE newIndex

\* _moveFocus stepping once, whatever the item it lands on
moveFocus_NoSkip(s, delta) ==
  IF Len(s.currentItems) = 0 THEN s
  ELSE [s EXCEPT !.focusedIndex =
          (s.focusedIndex + delta + Len(s.currentItems))
            % Len(s.currentItems)]

\* _moveFocus
moveFocus(s, delta) ==
  IF Len(s.currentItems) = 0 THEN s
  ELSE [s EXCEPT !.focusedIndex =
          nextFocus(s.currentItems, s.focusedIndex, delta, 0)]

\* the keys _onKeyDown tells apart ("Enter" and " " share the case of
\* "ArrowDown"); digit is 0 unless name = "Digit"
Key(name, digit) == [name |-> name, digit |-> digit]
Keys ==
  {Key(n, 0) : n \in {"Escape", "ArrowLeft", "ArrowRight", "ArrowUp",
                      "ArrowDown", "Home", "End", "Backspace"}}
    \cup {Key("Digit", d) : d \in 1..MaxDigit}

\* _onKeyDown
onKeyDown(s, key) ==
  LET itemCount == Len(s.currentItems)
  IN IF ~s.isOpen THEN s
     ELSE IF itemCount = 0 THEN s
     ELSE CASE key.name = "Escape" -> close(s)
            [] key.name = "ArrowLeft" -> moveFocus(activateKeyboardMode(s), -1)
            [] key.name = "ArrowRight" -> moveFocus(activateKeyboardMode(s), 1)
            [] key.name = "ArrowUp" ->
                 IF Len(s.navStack) > 0 THEN exitSubmenu(s) ELSE close(s)
            [] key.name = "ArrowDown" ->
                 IF s.focusedIndex >= 0 /\ s.focusedIndex < itemCount
                   THEN LET item == s.currentItems[s.focusedIndex + 1]
                        IN IF ~Disabled(item) THEN selectItem(s, item) ELSE s
                 ELSE IF s.keyboardActive /\ itemCount > 0
                   THEN [s EXCEPT !.focusedIndex = 0]
                 ELSE activateKeyboardMode(s)
            [] key.name = "Home" ->
                 [activateKeyboardMode(s) EXCEPT !.focusedIndex = 0]
            [] key.name = "End" ->
                 [activateKeyboardMode(s) EXCEPT !.focusedIndex = itemCount - 1]
            [] key.name = "Backspace" ->
                 IF Len(s.navStack) > 0 THEN exitSubmenu(s) ELSE s
            [] key.name = "Digit" ->
                 LET index == key.digit - 1
                 IN IF index < itemCount
                      THEN LET s1 == [activateKeyboardMode(s) EXCEPT
                                        !.focusedIndex = index]
                               item == s.currentItems[index + 1]
                           IN IF ~Disabled(item) THEN selectItem(s1, item)
                              ELSE s1
                      ELSE s

\* _onScroll with scroll-behavior "close"; exceeded = the scroll delta is
\* beyond the threshold
onScroll(s, exceeded) ==
  IF ~s.isOpen THEN s
  ELSE IF ScrollBehavior = "close" /\ exceeded THEN close(s)
  ELSE s

(* ------------------------------ attributes ----------------------------- *)
\* Number(newValue): a number or NaN
Num(n) == [nan |-> FALSE, val |-> n]
NaN == [nan |-> TRUE, val |-> 0]
\* the attribute values a host writes: not a number, removed (null), zero,
\* negative, below the default inner radius, above the default radius
AttrValues == {"abc", "null", "0", "-5", "30", "200"}
Number(newValue) ==
  CASE newValue = "abc" -> NaN
    [] newValue = "null" -> Num(0)
    [] newValue = "0" -> Num(0)
    [] newValue = "-5" -> Num(-5)
    [] newValue = "30" -> Num(30)
    [] newValue = "200" -> Num(200)
\* x || d for a number x: NaN and 0 are falsy
OrDefault(x, d) == IF x.nan \/ x.val = 0 THEN d ELSE x.val

\* attributeChangedCallback for "radius" and "inner-radius"
attributeChangedCallback(s, name, newValue) ==
  LET s1 == CASE name = "radius" ->
                   [s EXCEPT !.radius = OrDefault(Number(newValue), Radius)]
              [] name = "inner-radius" ->
                   [s EXCEPT !.innerRadius =
                               OrDefault(Number(newValue), InnerRadius)]
              [] name = "edge-behavior" ->
                   [s EXCEPT !.edgeBehavior =
                               IF newValue \in {"null", ""} THEN "flip"
                               ELSE newValue]
  IN IF s1.isOpen THEN render(s1) ELSE s1

(* ------------------------------ public API ----------------------------- *)
EdgeBehaviorValues == {"null", "flip", "shift", "none"}

\* set items(value)
setItems(s, value) ==
  LET s1 == [s EXCEPT !.items = value]
  IN IF s1.isOpen /\ ~s1.isClosing THEN render(s1) ELSE s1

\* toggle(x, y)
toggle(s, x, y) == IF s.isOpen THEN close(s) ELSE open(s, x, y)

\* openAsDropTarget(x, y)
openAsDropTarget(s, x, y) == open([s EXCEPT !.isDropTarget = TRUE], x, y)

\* dropOnHovered(data) (its result is the item of the ray-drop it emits)
dropOnHovered(s) ==
  IF \/ ~s.isOpen
     \/ s.hoveredIndex < 0
     \/ s.hoveredIndex >= Len(s.currentItems)
    THEN close(s)
  ELSE LET item == s.currentItems[s.hoveredIndex + 1]
       IN IF Disabled(item) \/ ~Selectable(item) THEN close(s)
          ELSE close(dispatchEvent(dispatchEvent(s, EvDrop(item)),
                                   EvSelect(item)))

\* cancelDrop()
cancelDrop(s) == close(clearSpringLoad(s))

(* ------------------------------- actions ------------------------------- *)
\* the time between two samples is read by _checkDragThrough alone
SampleDtsNow == IF instantDragThrough THEN SampleDts ELSE {1000}

\* The sessions explored: the root list the caller supplies, the dock
\* attributes (static and default-open), the instant-drag-through attribute,
\* and the way the menu is driven: by mouse or touch (pointermove, click,
\* scroll), by keyboard, or by a drag library through the drag & drop API.
Setup(m, r, dock, drag) ==
  [inputMode |-> m, items |-> r, dock |-> dock, instantDragThrough |-> drag]
Setups ==
  {Setup("mouse", RootStatic, FALSE, FALSE),
   Setup("keyboard", RootLazy, TRUE, FALSE),
   Setup("mouse", RootStaticLazy, TRUE, FALSE),
   Setup("keyboard", RootStaticLazy, FALSE, FALSE),
   Setup("keyboard", RootEmpty, FALSE, FALSE),
   Setup("keyboard", RootSingle, FALSE, FALSE),
   Setup("host", RootStatic, TRUE, FALSE),
   Setup("host", RootStatic, FALSE, FALSE),
   Setup("drag", RootStatic, FALSE, FALSE),
   Setup("drag", RootStatic, FALSE, TRUE),
   Setup("edge", RootStatic, FALSE, FALSE)}

\* the component as constructed for session su
InitComponent(su) ==
  /\ inputMode = su.inputMode
  /\ items = su.items
  /\ isStatic = su.dock
  /\ defaultOpen = su.dock
  /\ instantDragThrough = su.instantDragThrough
  /\ rootAtOpen = <<>>
  /\ radius = Radius
  /\ innerRadius = InnerRadius
  /\ edgeBehavior = "flip"
  /\ position = [x |-> 0, y |-> 0]
  /\ flipState = getFlipStateFromMode("none")
  /\ openedAt = [x |-> 0, y |-> 0]
  /\ isOpen = FALSE
  /\ isClosing = FALSE
  /\ isDropTarget = FALSE
  /\ listening = FALSE
  /\ container = "none"
  /\ cleanupTimers = 0
  /\ hoveredIndex = -1
  /\ focusedIndex = -1
  /\ keyboardActive = FALSE
  /\ pointerPosition = NoPoint
  /\ lastSample = NoPoint
  /\ navStack = <<>>
  /\ currentItems = <<>>
  /\ submenuEntryConfirmed = FALSE
  /\ springLoadItemId = NoItem
  /\ springPending = FALSE
  /\ springStale = FALSE
  /\ backDwellTimer = FALSE
  /\ dwellStale = FALSE
  /\ isLoading = FALSE
  /\ loadingItemId = NoItem
  /\ loadError = FALSE
  /\ errorTimers = 0
  /\ children = [i \in ItemIds |-> StaticChildren(i)]
  /\ loads = <<>>
  /\ applied = {}
  /\ emitted = <<>>
  /\ lastOp = Op("init", NoItem, FALSE, NoLoad)

Init ==
  /\ \E su \in Setups : InitComponent(su)
  /\ call = NoCall
  /\ returned = <<>>

Plain(o) == Op(o, NoItem, FALSE, NoLoad)

\* open(x, y): near the edges of the window where the session tries them
Open ==
  \E at \in IF inputMode = "edge" THEN OpenPoints ELSE {Center} :
    Update(open(Self, at.x, at.y), Plain("open"))

OpenAsDropTarget ==
  /\ inputMode = "drag"
  /\ Update(openAsDropTarget(Self, Center.x, Center.y),
            Plain("openAsDropTarget"))

Close == Update(close(Self), Plain("close"))

\* the host page sets the radius, the inner-radius or the edge-behavior
\* attribute
AttributeChanged ==
  \/ /\ inputMode = "host"
     /\ \E name \in {"radius", "inner-radius"}, newValue \in AttrValues :
          Update(attributeChangedCallback(Self, name, newValue),
                 Op("attributeChanged", name, FALSE, NoLoad))
  \/ /\ inputMode = "edge"
     /\ \E newValue \in EdgeBehaviorValues :
          Update(attributeChangedCallback(Self, "edge-behavior", newValue),
                 Op("attributeChanged", "edge-behavior", FALSE, NoLoad))

\* the host page replaces the root list
SetItems ==
  /\ inputMode = "host"
  /\ Update(setItems(Self, IF items = RootStatic THEN RootSwapped
                           ELSE RootStatic),
            Plain("setItems"))

Toggle == Update(toggle(Self, Center.x, Center.y), Plain("toggle"))

\* goBack(); flag: the boolean it returns
GoBack ==
  Update(exitSubmenu(Self), Op("goBack", NoItem, Len(navStack) > 0, NoLoad))

GoToRoot == Update(goToRoot(Self), Plain("goToRoot"))

DropOnHovered ==
  /\ inputMode = "drag"
  /\ Update(dropOnHovered(Self), Plain("dropOnHovered"))

CancelDrop ==
  /\ inputMode = "drag"
  /\ Update(cancelDrop(Self), Plain("cancelDrop"))

\* flag: the handler changed the hovered index
UpdateHoverFromPoint ==
  /\ inputMode = "drag"
  /\ \E p \in Points, dt \in SampleDtsNow :
    LET s == updateHoverFromPoint(Self, p, dt)
    IN Update(s, Op("updateHoverFromPoint", NoItem,
                    isOpen /\ calculateHoveredIndex(Self, p) # hoveredIndex,
                    NoLoad))

\* the window's dragover listener is attached exactly while _isDropTarget
OnDragOver ==
  /\ inputMode = "drag"
  /\ isDropTarget
  /\ \E p \in Points, dt \in SampleDtsNow :
       Update(IF isOpen /\ isDropTarget
                THEN updateHoverFromPoint(Self, p, dt) ELSE Self,
              Op("onDragOver", NoItem,
                 isOpen /\ calculateHoveredIndex(Self, p) # hoveredIndex,
                 NoLoad))

OnPointerMove ==
  /\ inputMode \in {"mouse", "drag"}
  /\ listening
  /\ \E p \in Points, dt \in SampleDtsNow :
       Update(onPointerMove(Self, p, dt),
              Op("onPointerMove", NoItem,
                 isOpen /\ calculateHoveredIndex(Self, p) # hoveredIndex,
                 NoLoad))

\* a click, or a touch tap (_onPointerUp calls _onClick)
OnClick ==
  /\ inputMode = "mouse"
  /\ listening
  /\ \E dist \in ClickDists : Update(onClick(Self, dist), Plain("onClick"))

OnKeyDown ==
  /\ inputMode \in {"keyboard", "host"}
  /\ listening
  /\ \E key \in Keys :
       Update(onKeyDown(Self, key), Op("onKeyDown", key.name, FALSE, NoLoad))

OnScroll ==
  /\ inputMode = "mouse"
  /\ listening
  /\ \E exceeded \in BOOLEAN :
       Update(onScroll(Self, exceeded), Plain("onScroll"))

\* the spring-load timeout fires; flag: close() was called since it was armed
SpringLoadFire ==
  /\ springPending
  /\ Update(enterSubmenu([Self EXCEPT !.springPending = FALSE,
                                      !.springStale = FALSE],
                         springLoadItemId, TRUE),
            Op("springLoadFire", springLoadItemId, springStale, NoLoad))

\* the back-dwell timeout fires; flag: close() was called since it was armed
BackDwellFire ==
  /\ backDwellTimer
  /\ Update(exitSubmenu([Self EXCEPT !.backDwellTimer = FALSE,
                                     !.dwellStale = FALSE]),
            Op("backDwellFire", NoItem, dwellStale, NoLoad))

\* the animationend listener(s) of the closing container run cleanup
AnimationEnd ==
  /\ container = "closing"
  /\ Update(cleanup(Self), Plain("animationEnd"))

\* a setTimeout(cleanup, 200) fires
CleanupTimerFire ==
  /\ cleanupTimers > 0
  /\ Update(cleanup([Self EXCEPT !.cleanupTimers = @ - 1]),
            Plain("cleanupTimerFire"))

\* an error auto-clear timeout fires
ErrorTimerFire ==
  /\ errorTimers > 0
  /\ Update(errorAutoClear(Self), Plain("errorTimerFire"))

\* a pending loadChildren promise is fulfilled; flag: with a non-empty array
LoadResolve ==
  \E k \in DOMAIN loads :
    \E result \in LoaderResults(loads[k].item) :
      LET rest == [j \in 1..(Len(loads) - 1) |->
                     IF j < k THEN loads[j] ELSE loads[j + 1]]
      IN Update(loadResolved([Self EXCEPT !.loads = rest], loads[k], result),
                Op("loadResolve", loads[k].item, result # <<>>, loads[k]))

\* a pending loadChildren promise is rejected
LoadReject ==
  \E k \in DOMAIN loads :
    LET rest == [j \in 1..(Len(loads) - 1) |->
                   IF j < k THEN loads[j] ELSE loads[j + 1]]
    IN Update(loadRejected([Self EXCEPT !.loads = rest], loads[k]),
              Op("loadReject", loads[k].item, FALSE, loads[k]))

Next ==
  \/ Open
  \/ OpenAsDropTarget
  \/ Close
  \/ AttributeChanged
  \/ SetItems
  \/ Toggle
  \/ GoBack
  \/ GoToRoot
  \/ DropOnHovered
  \/ CancelDrop
  \/ UpdateHoverFromPoint
  \/ OnDragOver
  \/ OnPointerMove
  \/ OnClick
  \/ OnKeyDown
  \/ OnScroll
  \/ SpringLoadFire
  \/ BackDwellFire
  \/ AnimationEnd
  \/ CleanupTimerFire
  \/ ErrorTimerFire
  \/ LoadResolve
  \/ LoadReject

Spec == Init /\ [][Next]_vars

(* ------------------- the exported functions, called -------------------- *)
\* The functions of the core (hit test, angles) are called with arguments
\* drawn from the sets below; the component itself stays as constructed.
HitDists == {0, 29, 30, 39, 40, 49, 50, 100, 101, 119, 120, 180, 181, 270, 271,
             400}
HitAngles == {-135, -90, -45, 0, 45, 180}
HitConfigs ==
  [infiniteSelection : BOOLEAN, centerDeadzone : {0, 30, 50},
   infiniteThreshold : {0, 100, 300}, radius : {120, 30}]
SomeItems == <<"a", "b", "c", "d", "e", "f", "g", "h">>

\* the component with the configuration, depth and active list of call c
HitSelf(c) ==
  [Self EXCEPT !.infiniteSelection = c.config.infiniteSelection,
               !.centerDeadzone = c.config.centerDeadzone,
               !.infiniteThreshold = c.config.infiniteThreshold,
               !.radius = c.config.radius,
               !.navStack = [k \in 1..c.depth |->
                               [item |-> "b", items |-> <<>>]],
               !.currentItems = SubSeq(SomeItems, 1, c.count)]

\* the calls made: one per behaviour, drawn at its start
HitCalls(fn) ==
  {[fn |-> fn, config |-> config, depth |-> depth,
    count |-> count, pointer |-> [ang |-> ang, dist |-> dist]] :
     config \in HitConfigs, depth \in 0..MaxDepth, count \in 0..MaxItems,
     dist \in HitDists, ang \in HitAngles}
HookCalls(fn) ==
  {[fn |-> fn, config |-> config, depth |-> 0, count |-> count,
    pointer |-> [ang |-> ang, dist |-> dist]] :
     config \in HitConfigs, count \in 0..MaxItems,
     dist \in HitDists, ang \in HitAngles}
\* pointer angles on both sides of the -180/180 seam and beyond one turn
RawAngles == {a \in -185..365 : a % 5 \in {0, 1, 4}}
ListAngles == {-170, 0, 90, 170}
FullCircleStarts == {-90, 0, 170}
ClosestCalls(fn) ==
  {[fn |-> fn, pointerAngle |-> a, itemAngles |-> l,
    fullCircle |-> FALSE, startAngle |-> 0] :
     a \in RawAngles,
     l \in UNION {[1..n -> ListAngles] : n \in 0..(MaxItems - 1)}}
  \cup
  {[fn |-> fn, pointerAngle |-> a,
    itemAngles |-> distributeAngles(n, st, 360),
    fullCircle |-> TRUE, startAngle |-> st] :
     a \in RawAngles, n \in 0..MaxItems, st \in FullCircleStarts}
\* centres inside, on the border of and outside the viewport; viewports wider
\* and narrower than two menu radii
EdgeXs == {-10, 0, 50, 107, 108, 109, 200, 291, 292, 293, 350, 400, 420}
EdgeYs == {-10, 50, 108, 200, 292, 350, 420}
EdgeRadii == {60, 100}
Viewports == [width : {150, 215, 216, 400}, height : {150, 400}]
Paddings == {0, 8}
EdgeCalls(fn) ==
  {[fn |-> fn, center |-> [x |-> x, y |-> y], radius |-> needed,
    viewport |-> viewport, padding |-> padding] :
     x \in EdgeXs, y \in EdgeYs, needed \in EdgeRadii,
     viewport \in Viewports, padding \in Paddings}

\* the calls of the core functions: one is drawn when a behaviour starts
Calls(c) ==
  \/ c \in HitCalls("calculateHoveredIndex")
  \/ c \in HookCalls("hoveredIndex")
  \/ c \in ClosestCalls("getClosestItemIndex")
  \/ c \in EdgeCalls("detectEdgeConstraints")
  \/ c \in EdgeCalls("calculateSmartFlip")

CallCalculateHoveredIndex ==
  /\ call.fn = "calculateHoveredIndex" /\ returned = <<>>
  /\ returned' = <<calculateHoveredIndex(HitSelf(call), call.pointer)>>
  /\ UNCHANGED call

CallHoveredIndex ==
  /\ call.fn = "hoveredIndex" /\ returned = <<>>
  /\ returned' = <<useRadialMenu_hoveredIndex(
                      [infiniteSelection |-> call.config.infiniteSelection,
                       centerDeadzone |-> call.config.centerDeadzone,
                       infiniteThreshold |-> call.config.infiniteThreshold,
                       radius |-> call.config.radius,
                       innerRadius |-> innerRadius],
                      call.count, call.pointer)>>
  /\ UNCHANGED call

CallGetClosestItemIndex ==
  /\ call.fn = "getClosestItemIndex" /\ returned = <<>>
  /\ returned' = <<getClosestItemIndex(call.pointerAngle, call.itemAngles)>>
  /\ UNCHANGED call

CallDetectEdgeConstraints ==
  /\ call.fn = "detectEdgeConstraints" /\ returned = <<>>
  /\ returned' = <<detectEdgeConstraints(call.center, call.radius,
                                         call.viewport, call.padding)>>
  /\ UNCHANGED call

CallCalculateSmartFlip ==
  /\ call.fn = "calculateSmartFlip" /\ returned = <<>>
  /\ returned' = <<calculateSmartFlip(
                      call.center, call.radius,
                      detectEdgeConstraints(call.center, call.radius,
                                            call.viewport, call.padding))>>
  /\ UNCHANGED call

Component == <<inputMode, items, rootAtOpen, radius, innerRadius,
               edgeBehavior, position, flipState, openedAt, isStatic,
               defaultOpen, instantDragThrough, isOpen, isClosing,
               isDropTarget, listening, container, cleanupTimers,
               hoveredIndex, focusedIndex, keyboardActive, pointerPosition,
               lastSample, navStack, currentItems, submenuEntryConfirmed,
               springLoadItemId, springPending, springStale, backDwellTimer,
               dwellStale, isLoading, loadingItemId, loadError, errorTimers,
               children, loads, applied, emitted, lastOp>>

InitCore ==
  /\ \E su \in {Setup("mouse", RootStatic, FALSE, FALSE)} : InitComponent(su)
  /\ Calls(call)
  /\ returned = <<>>

NextCore ==
  /\ \/ CallCalculateHoveredIndex
     \/ CallHoveredIndex
     \/ CallGetClosestItemIndex
     \/ CallDetectEdgeConstraints
     \/ CallCalculateSmartFlip
  /\ UNCHANGED Component

SpecCore == InitCore /\ [][NextCore]_vars

(* ------------------------------ properties ----------------------------- *)
Settled == {"loadResolve", "loadReject"}
PointerOps == {"updateHoverFromPoint", "onDragOver", "onPointerMove"}
Expandable(item) ==
  item # NoItem /\ (children[item] # <<>> \/ CanLoadChildren(item))
LoadState == <<children, navStack, currentItems, isLoading, loadingItemId,
               loadError>>

\* C1: when close() was called while a loadChildren promise was pending, the
\* promise's later resolution or rejection changes nothing (item.children,
\* the navigation stack, the active list, the loading and error flags) and
\* emits no event.
C1_SettleAfterCloseChangesNothing ==
  [][(lastOp'.op \in Settled /\ lastOp'.load.closed)
       => (emitted' = <<>> /\ UNCHANGED LoadState)]_vars

C3_LoadedEntryIsOneLevelBelowItsStart ==
  [][(/\ lastOp'.op = "loadResolve" /\ lastOp'.flag
      /\ isOpen /\ loadingItemId = lastOp'.item
      /\ ~lastOp'.load.closed /\ ~lastOp'.load.superseded)
       => emitted' = <<EvLoadComplete(lastOp'.item),
                       EvEnter(lastOp'.item, lastOp'.load.depth + 1)>>]_vars

C5_RejectionIsReportedOnce ==
  [][(lastOp'.op = "loadReject" /\ isOpen /\ loadingItemId = lastOp'.item)
       => /\ emitted' = <<EvLoadError(lastOp'.item)>>
          /\ ~isLoading'
          /\ isOpen'
          /\ navStack' = navStack
          /\ currentItems' = currentItems]_vars

\* C5 happens: the load in flight was rejected one level down an open menu.
C5_Witness ==
  /\ lastOp.op = "loadReject"
  /\ emitted = <<EvLoadError(lastOp.item)>>
  /\ isOpen /\ loadError /\ ~isLoading

\* C6: when the load in flight resolves to an empty array, ray-load-complete
\* is emitted and nothing else, and the navigation stack and the active list
\* are unchanged; and no step that deepens the navigation stack leaves an
\* empty active list.
C6_EmptyResultPushesNothing ==
  [][/\ (/\ lastOp'.op = "loadResolve" /\ ~lastOp'.flag
         /\ isOpen /\ loadingItemId = lastOp'.item)
          => /\ emitted' = <<EvLoadComplete(lastOp'.item)>>
             /\ navStack' = navStack
             /\ currentItems' = currentItems
     /\ Len(navStack') > Len(navStack) => currentItems' # <<>>]_vars

\* C6 happens: an empty result was applied and cached.
C6_Witness ==
  /\ lastOp.op = "loadResolve" /\ ~lastOp.flag
  /\ emitted = <<EvLoadComplete(lastOp.item)>>
  /\ <<lastOp.item, FALSE>> \in applied
  /\ isOpen /\ ~isLoading

\* C7: right after open(x, y) (the handler that emitted ray-open) the
\* navigation stack is empty, the active list is the root list, nothing is
\* hovered, the root level is entry-confirmed and isOpen is true.
C7_OpenStartsAtConfirmedRoot ==
  EvOpen \in Range(emitted)
    => /\ navStack = <<>>
       /\ currentItems = items
       /\ hoveredIndex = -1
       /\ submenuEntryConfirmed
       /\ isOpen

\* C7 happens: open() was called in the middle of closing, with a load in
\* flight.
C7_Witness ==
  /\ lastOp.op = "open"
  /\ EvOpen \in Range(emitted)
  /\ isClosing /\ isLoading /\ cleanupTimers > 0

\* C8: a spring-load or back-dwell timer that was armed before a close() call
\* has no effect when it fires: no submenu is entered or exited, no event is
\* emitted.
C8_NoTimerEffectAfterClose ==
  (lastOp.op \in {"springLoadFire", "backDwellFire"} /\ lastOp.flag)
    => (emitted = <<>> /\ navStack = <<>>)

\* C9: after a close() that emitted ray-close has returned, isOpen is false,
\* the navigation stack and the motion history are empty, and the drop-target
\* and loading flags are false.
C9_ClosedWhenCloseReturns ==
  EvClose \in Range(emitted)
    => /\ ~isOpen
       /\ navStack = <<>>
       /\ lastSample = NoPoint
       /\ ~isDropTarget
       /\ ~isLoading

\* the spring-load timer is pending iff the hovered item is expandable, and
\* then it is that item's
SpringFollowsHover ==
  IF Expandable(getHoveredItem(Self))
    THEN springPending /\ springLoadItemId = getHoveredItem(Self)
    ELSE ~springPending

\* C10: when a pointer handler (updateHoverFromPoint, dragover or the global
\* pointer-move) changes the hovered item while a spring-load timer is
\* pending, that timer is cancelled and one is armed iff the newly hovered
\* item is expandable: afterwards a timer is pending iff the hovered item is
\* expandable, and it is that item's.
C10_HoverChangeRearmsSpringLoad ==
  [][(lastOp'.op \in PointerOps /\ lastOp'.flag /\ springPending)
       => SpringFollowsHover']_vars

(* ------------------------- entry confirmation -------------------------- *)
\* the step entered a submenu level
Entered == Len(navStack') = Len(navStack) + 1
\* the pointer sample of the state lies in the active ring's confirmation band
InConfirmBand ==
  /\ pointerPosition # NoPoint
  /\ pointerPosition.dist >= getCurrentInnerRadius(Self)
  /\ 10 * pointerPosition.dist <= 12 * getCurrentRadius(Self)

InBackZone ==
  /\ pointerPosition # NoPoint
  /\ pointerPosition.dist >= CenterSafeZone
  /\ pointerPosition.dist < innerRadius
\* the step is a pointer handler taking a sample in a submenu of the open
\* menu while the back-dwell timer is pending
SampledWhileDwelling ==
  lastOp'.op \in PointerOps /\ isOpen /\ navStack # <<>> /\ backDwellTimer

\* C12: a pointer sample outside the back zone (centerSafeZone <= dist <
\* innerRadius) cancels the pending dwell-to-exit, so that a dwell exits a
\* level only if every sample since its timer was armed lay in the zone.
C12_SampleOutsideBackZoneCancelsDwell ==
  [][(SampledWhileDwelling /\ ~InBackZone') => ~backDwellTimer']_vars

(* ------------------------------ activation ----------------------------- *)
Count(seq, e) == Cardinality({k \in DOMAIN seq : seq[k] = e})

\* the activations the state offers: the item, and the component after the
\* handler (a click on the hovered item; Enter, Space or ArrowDown on the
\* focused item; the digit key of an item)
ClickActivations ==
  IF /\ inputMode = "mouse" /\ listening /\ isOpen
     /\ hoveredIndex >= 0 /\ hoveredIndex < Len(currentItems)
    THEN {[item |-> currentItems[hoveredIndex + 1],
           after |-> onClick(Self, dist)] :
            dist \in {d \in ClickDists : d >= getCurrentInnerRadius(Self)}}
    ELSE {}
KeyActivations ==
  IF /\ inputMode \in {"keyboard", "host"}
     /\ listening /\ isOpen /\ currentItems # <<>>
    THEN {[item |-> currentItems[focusedIndex + 1],
           after |-> onKeyDown(Self, Key("ArrowDown", 0))] :
            x \in {y \in {0} : /\ focusedIndex >= 0
                                /\ focusedIndex < Len(currentItems)}}
         \cup {[item |-> currentItems[d],
                after |-> onKeyDown(Self, Key("Digit", d))] :
                 d \in {e \in 1..MaxDigit : e - 1 < Len(currentItems)}}
    ELSE {}
Activations == ClickActivations \cup KeyActivations

\* outcome 1: ray-select once, then close()
SelectsAndCloses(s, item, r) ==
  /\ Count(r.emitted, EvSelect(item)) = 1
  /\ IF s.defaultOpen /\ s.isStatic
       THEN r.isOpen /\ r.navStack = <<>> /\ r.currentItems = s.items
       ELSE /\ r.emitted = <<EvSelect(item), EvClose>>
            /\ r.isClosing /\ ~r.listening
\* outcome 2, entered in the handler
EntersNow(s, item, r) ==
  /\ r.emitted = <<EvEnter(item, Len(s.navStack) + 1)>>
  /\ Len(r.navStack) = Len(s.navStack) + 1
  /\ r.currentItems = s.children[item]
  /\ r.isOpen
\* outcome 2 for a lazy item without children: the loader is called
StartsLoad(s, item, r) ==
  /\ r.emitted = <<EvLoadStart(item)>>
  /\ r.navStack = s.navStack /\ r.currentItems = s.currentItems
  /\ r.isLoading /\ r.loadingItemId = item
  /\ Len(r.loads) = Len(s.loads) + 1
  /\ r.isOpen
\* outcome 3, up to the keyboard focus
NothingButFocus(s, r) ==
  r = [s EXCEPT !.focusedIndex = r.focusedIndex,
                !.keyboardActive = r.keyboardActive]

Pressed(name) ==
  lastOp'.op = "onKeyDown" /\ lastOp'.item = name /\ isOpen
\* close() has run in the step: the menu is closing or closed, or, docked,
\* back at its root
CloseRan ==
  IF defaultOpen /\ isStatic
    THEN navStack' = <<>> /\ currentItems' = items /\ ~keyboardActive'
    ELSE EvClose \in Range(emitted') /\ ~listening'

\* C14: whenever the menu is open, an Escape key press closes it, at any
\* depth, while loading, with or without keyboard focus, and for any number
\* of items in the active list.
C14_EscapeAlwaysCloses ==
  [][Pressed("Escape") => CloseRan]_vars

\* the step exited exactly one level, with one ray-submenu-exit, staying open
ExitedOneLevel ==
  /\ Len(navStack') = Len(navStack) - 1
  /\ Len(emitted') = 1 /\ emitted'[1].type = "ray-submenu-exit"
  /\ isOpen' /\ listening'

\* C15: ArrowUp and Backspace each exit exactly one submenu level when
\* depth > 0 and each close the menu when depth is 0 (here with a non-empty
\* active list).
C15_UpAndBackspaceExitOrClose ==
  [][((Pressed("ArrowUp") \/ Pressed("Backspace")) /\ currentItems # <<>>)
       => IF navStack # <<>> THEN ExitedOneLevel ELSE CloseRan]_vars

\* the index of the first enabled item met from `from` in steps of delta,
\* wrapping around the ends of the list
EnabledAhead(list, from, delta) ==
  LET n == Len(list)
      at(k) == (from + k * delta + n * (k + 1)) % n
      ks == {k \in 1..n : ~Disabled(list[at(k) + 1])}
  IN at(CHOOSE k \in ks : \A j \in ks : k <= j)
\* the focus a press starts from: _activateKeyboardMode puts it on the first
\* item when keyboard mode was off and nothing was focused
FocusStart == IF ~keyboardActive /\ focusedIndex < 0 THEN 0 ELSE focusedIndex

Exited(n) ==
  /\ n > 0 /\ Len(navStack) >= n
  /\ navStack' = SubSeq(navStack, 1, Len(navStack) - n)
  /\ Len(emitted') = n
  /\ \A k \in 1..n : emitted'[k].type = "ray-submenu-exit"

\* C17: push then pop is a round trip. An entry followed at once by an exit
\* restores the active list, the depth and both ring radii and leaves the
\* hovered index at -1; and every exit of one level restores the list its
\* entry was pushed over and resets the hovered index.
C17_EnterThenExitIsRoundTrip ==
  [][/\ Entered =>
          LET r == exitSubmenu(Self')
          IN /\ r.currentItems = currentItems
             /\ r.navStack = navStack
             /\ getCurrentRadius(r) = getCurrentRadius(Self)
             /\ getCurrentInnerRadius(r) = getCurrentInnerRadius(Self)
             /\ r.hoveredIndex = -1
     /\ Exited(1) =>
          /\ currentItems' = navStack[Len(navStack)].items
          /\ hoveredIndex' = -1]_vars
\* a level entered from the root has just been exited: the root list is back
C17_Witness ==
  /\ Len(emitted) = 1 /\ emitted[1].type = "ray-submenu-exit"
  /\ isOpen /\ navStack = <<>>
  /\ currentItems = items /\ items # <<>>
  /\ hoveredIndex = -1

\* C18: every entry of the navigation stack holds the list that was active
\* immediately before its item was entered (an entry is pushed over the
\* active list and never changed afterwards), and at depth 0 of an open menu
\* the active list is the root list taken at open().
C18_SnapshotsAreThePreviousLists ==
  [][/\ Len(navStack') > Len(navStack)
          => /\ Entered
             /\ SubSeq(navStack', 1, Len(navStack)) = navStack
             /\ navStack'[Len(navStack')].items = currentItems
     /\ Len(navStack') <= Len(navStack)
          => navStack' = SubSeq(navStack, 1, Len(navStack'))
     /\ (isOpen' /\ navStack' = <<>>) => currentItems' = rootAtOpen']_vars

\* the root list in force: the active list at depth 0, the bottom snapshot
\* otherwise
RootInForce == IF navStack = <<>> THEN currentItems ELSE navStack[1].items

\* C18, amended: every entry of the navigation stack holds the list that was
\* active immediately before its item was entered, and the root list in
\* force of an open menu is replaced only by open() and by the reset that
\* close() performs on a docked menu, both taking the items of that moment.
C18_SnapshotsAndRootInForce ==
  [][/\ Len(navStack') > Len(navStack)
          => /\ Entered
             /\ SubSeq(navStack', 1, Len(navStack)) = navStack
             /\ navStack'[Len(navStack')].items = currentItems
     /\ Len(navStack') <= Len(navStack)
          => navStack' = SubSeq(navStack, 1, Len(navStack'))
     /\ isOpen'
          => \/ isOpen /\ RootInForce' = RootInForce
             \/ /\ RootInForce' = items /\ items' = items
                /\ \/ EvOpen \in Range(emitted')
                   \/ defaultOpen /\ isStatic /\ navStack' = <<>>]_vars
\* the caller replaced the items while a submenu was shown, and the exit has
\* restored the root list that open() took
C18_Witness ==
  /\ Len(emitted) = 1 /\ emitted[1].type = "ray-submenu-exit"
  /\ isOpen /\ navStack = <<>>
  /\ currentItems = rootAtOpen /\ items # rootAtOpen

\* C19: goBack() at depth 0 returns false, changes no state and emits no
\* event; at depth n > 0 it returns true and leaves depth n - 1.  goToRoot()
\* from depth n ends at depth 0 after exactly n ray-submenu-exit events whose
\* depth fields are n - 1, n - 2, ..., 0.
C19_GoBackAndGoToRoot ==
  [][/\ lastOp'.op = "goBack"
          => IF navStack = <<>>
               THEN ~lastOp'.flag /\ emitted' = <<>> /\ Self' = Self
               ELSE lastOp'.flag /\ Exited(1)
     /\ lastOp'.op = "goToRoot"
          => /\ navStack' = <<>>
             /\ Len(emitted') = Len(navStack)
             /\ \A k \in 1..Len(navStack) :
                  /\ emitted'[k].type = "ray-submenu-exit"
                  /\ emitted'[k].depth = Len(navStack) - k]_vars
\* goToRoot() has just left depth 2
C19_Witness ==
  /\ lastOp.op = "goToRoot"
  /\ Len(emitted) = 2
  /\ navStack = <<>> /\ isOpen

(* ---------------------------- configuration ---------------------------- *)
\* C20: 0 <= innerRadius < radius in every reachable state, whatever values
\* the radius and inner-radius attributes are given, so that at every depth
\* currentRadius = radius + depth * radiusStep, currentInnerRadius is
\* innerRadius at depth 0 and the previous level's outer radius otherwise,
\* and currentInnerRadius < currentRadius.
C20_InnerRadiusBelowRadius ==
  /\ 0 <= innerRadius /\ innerRadius < radius
  /\ getCurrentRadius(Self) = radius + Len(navStack) * SubmenuRadiusStep
  /\ getCurrentInnerRadius(Self) =
       IF navStack = <<>> THEN innerRadius
       ELSE radius + (Len(navStack) - 1) * SubmenuRadiusStep
  /\ getCurrentInnerRadius(Self) < getCurrentRadius(Self)

(* ------------------------------- hit test ------------------------------ *)
\* the dead-zone of the call: max(centerDeadzone, currentInnerRadius) under
\* infinite selection, currentInnerRadius otherwise
EffectiveDeadzone(c) ==
  LET inner == IF c.depth = 0 THEN innerRadius
               ELSE c.config.radius + (c.depth - 1) * SubmenuRadiusStep
  IN IF c.config.infiniteSelection /\ c.config.centerDeadzone > inner
       THEN c.config.centerDeadzone ELSE inner

\* C21: for every configuration, depth and item list the hit test (of the
\* component and of the hook) returns -1 for a pointer whose distance from
\* the centre is strictly less than the effective dead-zone.
C21_InsideDeadzoneHitsNothing ==
  (/\ call.fn \in {"calculateHoveredIndex", "hoveredIndex"}
   /\ returned # <<>>
   /\ call.pointer.dist < EffectiveDeadzone(call))
    => returned = <<-1>>


\* C22: under infiniteSelection with no threshold the index depends on the
\* pointer's angle only (every distance at or beyond the dead-zone on the
\* same ray gives the same index, which designates an item when the list is
\* not empty); under infiniteSelection with a threshold a pointer beyond the
\* threshold hits nothing; without infiniteSelection a pointer beyond
\* 1.5 * currentRadius hits nothing.
C22_AngleOnlyAndCutoffs ==
  (call.fn = "calculateHoveredIndex" /\ returned # <<>>) =>
    LET s == HitSelf(call)
        dist == call.pointer.dist
        index == returned[1]
    IN /\ (/\ s.infiniteSelection /\ s.infiniteThreshold = 0
           /\ dist >= EffectiveDeadzone(call)) =>
            /\ \A other \in HitDists :
                 other >= EffectiveDeadzone(call) =>
                   calculateHoveredIndex(
                     s, [ang |-> call.pointer.ang, dist |-> other]) = index
            /\ call.count > 0 => index \in 0..(call.count - 1)
       /\ (/\ s.infiniteSelection /\ s.infiniteThreshold > 0
           /\ dist > s.infiniteThreshold) => index = -1
       /\ (~s.infiniteSelection /\ 2 * dist > 3 * getCurrentRadius(s)) =>
            index = -1

C22_Witness ==
  /\ call.fn = "calculateHoveredIndex" /\ returned # <<>>
  /\ call.config.infiniteSelection /\ call.config.infiniteThreshold = 0
  /\ call.count = MaxItems /\ call.depth = MaxDepth
  /\ 2 * call.pointer.dist > 3 * (call.config.radius + call.depth * SubmenuRadiusStep)
  /\ returned[1] > 0


\* the shortest angular distance between two angles, taken around the circle
AngularDistance(a, b) ==
  LET d == (a - b) % 360 IN IF d > 180 THEN 360 - d ELSE d

\* C23: getClosestItemIndex returns -1 for an empty list and otherwise the
\* smallest index whose angle is at the least shortest angular distance from
\* the pointer angle; with the angles distributeAngles gives for a full
\* circle, a pointer angle strictly inside sector i resolves to i.
C23_ClosestIsFirstMinimiser ==
  (call.fn = "getClosestItemIndex" /\ returned # <<>>) =>
    LET angles == call.itemAngles
        n == Len(angles)
        index == returned[1]
        dist(i) == AngularDistance(call.pointerAngle, angles[i + 1])
    IN IF n = 0 THEN index = -1
       ELSE /\ index \in 0..(n - 1)
            /\ \A j \in 0..(n - 1) : dist(index) <= dist(j)
            /\ \A j \in 0..(index - 1) : dist(index) < dist(j)
            /\ call.fullCircle =>
                 \A i \in 0..(n - 1) :
                   LET step == 360 \div n
                       into == (call.pointerAngle
                                  - (call.startAngle + step * i)) % 360
                   IN (360 % n = 0 /\ into > 0 /\ into < step) => index = i

C23_Witness ==
  /\ call.fn = "getClosestItemIndex" /\ returned # <<>>
  /\ ~call.fullCircle /\ Len(call.itemAngles) = 3
  /\ returned[1] = 1
  /\ AngularDistance(call.pointerAngle, call.itemAngles[2])
       = AngularDistance(call.pointerAngle, call.itemAngles[3])
  /\ Abs(call.pointerAngle - call.itemAngles[2]) > 180


\* the distance from a point to each edge of the viewport, less the padding
SpaceTo(point, viewport, padding) ==
  [top |-> point.y - padding, left |-> point.x - padding,
   bottom |-> (viewport.height - point.y) - padding,
   right |-> (viewport.width - point.x) - padding]

\* C24: detectEdgeConstraints marks an edge constrained iff the space
\* available to it is less than the radius; the offset of an axis is 0 when
\* neither of its edges is constrained; when exactly one is, the offset moves
\* the centre so that this edge gets exactly the radius, and the opposite
\* edge is unconstrained too if the viewport spans 2 * (radius + padding).
C24_EdgeOffsetsRepairOneEdge ==
  (call.fn = "detectEdgeConstraints" /\ returned # <<>>) =>
    LET state == returned[1]
        space == SpaceTo(call.center, call.viewport, call.padding)
        moved == [x |-> call.center.x + state.offset.x,
                  y |-> call.center.y + state.offset.y]
        after == SpaceTo(moved, call.viewport, call.padding)
        Axis(near, far, offset, extent) ==
          /\ (~state.constrained[near] /\ ~state.constrained[far]) =>
               offset = 0
          /\ (state.constrained[near] /\ ~state.constrained[far]) =>
               /\ offset = call.radius - space[near]
               /\ offset > 0
               /\ after[near] = call.radius
               /\ extent >= 2 * (call.radius + call.padding) =>
                    after[far] >= call.radius
          /\ (state.constrained[far] /\ ~state.constrained[near]) =>
               /\ offset = -(call.radius - space[far])
               /\ offset < 0
               /\ after[far] = call.radius
               /\ extent >= 2 * (call.radius + call.padding) =>
                    after[near] >= call.radius
    IN /\ \A edge \in {"top", "right", "bottom", "left"} :
            state.constrained[edge] <=> space[edge] < call.radius
       /\ Axis("left", "right", state.offset.x, call.viewport.width)
       /\ Axis("top", "bottom", state.offset.y, call.viewport.height)

C24_Witness ==
  /\ call.fn = "detectEdgeConstraints" /\ returned # <<>>
  /\ returned[1].constrained.right /\ ~returned[1].constrained.left
  /\ ~returned[1].constrained.top /\ ~returned[1].constrained.bottom
  /\ call.viewport.width >= 2 * (call.radius + call.padding)
  /\ call.padding > 0
  /\ returned[1].offset.x < 0 /\ returned[1].offset.y = 0

\* C25: calculateSmartFlip flips horizontally iff the right edge is
\* constrained and the left has more space than the right, vertically iff
\* the bottom edge is constrained and the top has more space than the
\* bottom; the mode names the pair of flips and each scale is -1 for a
\* flipped axis and 1 otherwise.
C25_SmartFlipFollowsSpace ==
  (call.fn = "calculateSmartFlip" /\ returned # <<>>) =>
    LET flip == returned[1]
        space == SpaceTo(call.center, call.viewport, call.padding)
    IN /\ flip.flipX <=> (space.right < call.radius /\ space.left > space.right)
       /\ flip.flipY <=> (space.bottom < call.radius /\ space.top > space.bottom)
       /\ flip.mode = (IF flip.flipX /\ flip.flipY THEN "both"
                       ELSE IF flip.flipX THEN "horizontal"
                       ELSE IF flip.flipY THEN "vertical"
                       ELSE "none")
       /\ flip.scaleX = (IF flip.flipX THEN -1 ELSE 1)
       /\ flip.scaleY = (IF flip.flipY THEN -1 ELSE 1)

C25_Witness ==
  /\ call.fn = "calculateSmartFlip" /\ returned # <<>>
  /\ returned[1].mode = "vertical"
  /\ SpaceTo(call.center, call.viewport, call.padding).right < call.radius


\* the flip state of a menu that is not mirrored
Unflipped == getFlipStateFromMode("none")

\* C26: open(x, y) applies the edge policy edgeBehavior selects: under
\* "shift" the centre is (x, y) moved by the edge offset, under "flip" the
\* flip state is the smart flip of this open, under "none" the centre is
\* exactly (x, y) and the layout is not flipped; the flip state is that of
\* this open, whatever an earlier open left.
C26_OpenAppliesEdgePolicy ==
  lastOp.op = "open" =>
    LET edgeState ==
          detectEdgeConstraints(openedAt, radius, Window, EdgePadding)
        smart == calculateSmartFlip(openedAt, radius, edgeState)
    IN /\ edgeBehavior = "shift" =>
            /\ position = [x |-> openedAt.x + edgeState.offset.x,
                           y |-> openedAt.y + edgeState.offset.y]
            /\ flipState \in {Unflipped, smart}
       /\ edgeBehavior = "flip" => flipState = smart
       /\ edgeBehavior = "none" =>
            position = openedAt /\ flipState = Unflipped


\* C27: dropOnHovered leaves the menu closed; it emits ray-drop and then
\* ray-select for the hovered item (the item it returns) iff the menu was
\* open and the hovered index designates an item that is neither disabled
\* nor unselectable, and emits neither of the two in every other case.
C27_DropOnHoveredClosesAndReports ==
  [][lastOp'.op = "dropOnHovered" =>
       LET designates == /\ isOpen
                         /\ hoveredIndex >= 0
                         /\ hoveredIndex < Len(currentItems)
           item == currentItems[hoveredIndex + 1]
           drops == {k \in DOMAIN emitted' :
                       emitted'[k].type \in {"ray-drop", "ray-select"}}
       IN /\ ~isOpen'
          /\ IF designates /\ ~Disabled(item) /\ Selectable(item)
               THEN /\ Len(emitted') >= 2
                    /\ emitted'[1] = EvDrop(item)
                    /\ emitted'[2] = EvSelect(item)
                    /\ drops = {1, 2}
               ELSE drops = {}]_vars


\* C28: when the spring-load timer fires and the item's submenu is entered,
\* a ray-spring-load event carrying that item is emitted.
C28_SpringLoadEntryIsAnnounced ==
  (/\ lastOp.op = "springLoadFire"
   /\ \E e \in Range(emitted) :
        e.type = "ray-submenu-enter" /\ e.item = lastOp.item)
    => EvSpringLoad(lastOp.item) \in Range(emitted)


\* a pointer-sample handler that ends in state s entered a submenu or
\* started the load that enters one
EntersBySample(s) ==
  Len(s.navStack) > Len(navStack) \/ Len(s.loads) > Len(loads)

ClosedBy(s, r) ==
  IF s.defaultOpen /\ s.isStatic
    THEN r.navStack = <<>> /\ r.currentItems = s.items /\ r.hoveredIndex = -1
    ELSE /\ Count(r.emitted, EvClose) = 1
         /\ r.isClosing /\ ~r.listening /\ Len(r.navStack) = Len(s.navStack)

DepthChanged ==
  \E e \in Range(emitted') :
    e.type \in {"ray-submenu-enter", "ray-submenu-exit"}

\* C31: every step that enters or leaves a submenu level cancels the
\* back-dwell timer and the spring-load timer that were pending before it.
C31_DepthChangeCancelsTimers ==
  [][DepthChanged =>
       /\ backDwellTimer => ~backDwellTimer'
       /\ springPending =>
            (~springPending' \/ springLoadItemId' # springLoadItemId)]_vars


\* C32: an error auto-clear timeout that fires while a later failure's
\* timeout is still pending (equal delays fire in arming order, so the
\* recorded error is then the later failure's) leaves the error in place.
C32_AutoClearOnlyOwnError ==
  [][(lastOp'.op = "errorTimerFire" /\ errorTimers > 1)
       => loadError' = loadError]_vars


\* C33: the item of every navigation-stack entry is one of the items of
\* the level that entry was pushed from.
C33_EntryItemInSnapshot ==
  \A k \in DOMAIN navStack : navStack[k].item \in Range(navStack[k].items)


\* C34: when open() has just been called while a close was still pending,
\* the deferred cleanup of that close (animationend or the 200 ms timer)
\* leaves the menu open with the items and position that open() set.
C34_ReopenSurvivesPendingCleanup ==
  [][(/\ lastOp.op = "open"
      /\ isClosing
      /\ lastOp'.op \in {"animationEnd", "cleanupTimerFire"})
       => /\ isOpen'
          /\ currentItems' = currentItems
          /\ position' = position]_vars


\* the step emitted an event of this type
Emits(type) == \E e \in Range(emitted') : e.type = type

\* C35: a step taken while the menu is closed or closing emits no
\* ray-close, and a step taken while it is open and not closing emits no
\* ray-open, so that the two events alternate.
C35_OpenCloseAlternate ==
  [][/\ (~isOpen \/ isClosing) => ~Emits("ray-close")
     /\ (isOpen /\ ~isClosing) => ~Emits("ray-open")]_vars


\* C36: while the load of an item is in flight (a promise of that item is
\* pending and the item is the one being loaded), no step starts another
\* load of it: no further ray-load-start is emitted for that item.
C36_OneLoadInFlightPerItem ==
  [][\A k \in DOMAIN loads :
       (isLoading /\ loadingItemId = loads[k].item)
         => EvLoadStart(loads[k].item) \notin Range(emitted')]_vars


(* ------------------------ loads that always settle --------------------- *)
\* The keyboard sessions on roots with lazy items: the dock of two lazy
\* items, where one load can supersede another, and the menu of a static
\* and a lazy item, which can be closed while its load is pending.
SettlingSetups ==
  {Setup("keyboard", RootLazy, TRUE, FALSE),
   Setup("keyboard", RootStaticLazy, FALSE, FALSE)}

InitSettling ==
  /\ \E su \in SettlingSetups : InitComponent(su)
  /\ call = NoCall
  /\ returned = <<>>

NextSettling ==
  \/ Open
  \/ Close
  \/ Toggle
  \/ GoBack
  \/ GoToRoot
  \/ OnKeyDown
  \/ AnimationEnd
  \/ CleanupTimerFire
  \/ ErrorTimerFire
  \/ LoadResolve
  \/ LoadReject

\* the step is the settling of a pending promise: LoadResolve or LoadReject,
\* told by the operation the step records
Settling ==
  \E k \in DOMAIN loads, o \in Settled, f \in BOOLEAN :
    lastOp' = Op(o, loads[k].item, f, loads[k])

\* Every loadChildren promise that was started eventually settles: while a
\* promise is pending, the settling of one is not postponed forever.
SpecSettling ==
  InitSettling /\ [][NextSettling]_vars /\ WF_lastOp(Settling)

\* isLoading is true iff the id of the item in flight is set
LoadingIffInFlight == isLoading <=> loadingItemId # NoItem

\* the last step started a load
LoadStarted == \E e \in Range(emitted) : e.type = "ray-load-start"

\* C37 (as stated): isLoading is true iff the in-flight item id is set, and
\* every state with isLoading true is followed by one with isLoading false.
C37_LoadingAlwaysEnds ==
  /\ []LoadingIffInFlight
  /\ isLoading ~> ~isLoading

\* C37 (amended): isLoading is true iff the in-flight item id is set, and
\* loading ends unless loads keep being started forever.
C37_LoadingEndsUnlessRestartedForever ==
  /\ []LoadingIffInFlight
  /\ ([]<>LoadStarted) \/ (isLoading ~> ~isLoading)

\* a second load has been started while the first was pending, and the
\* superseded promise has since settled without effect
C37_Witness ==
  /\ isLoading
  /\ lastOp.op \in Settled
  /\ lastOp.load.superseded


\* -1 or an index of the active list (0-based)
ValidIndex(i) == i = -1 \/ (0 <= i /\ i < Len(currentItems))

\* C38: the hovered index and the focused index are each -1 or an index
\* into the active item list, and getHoveredItem() returns null exactly
\* when the hovered index is -1.
C38_IndicesInRange ==
  /\ ValidIndex(hoveredIndex)
  /\ ValidIndex(focusedIndex)
  /\ getHoveredItem(Self) = NoItem <=> hoveredIndex = -1


\* C39: a step emits ray-select only for an item that is enabled,
\* selectable and not expandable, and the same step runs close().
C39_SelectOnlyLeavesThenClose ==
  [][\A e \in Range(emitted') :
       e.type = "ray-select"
         => /\ ~Disabled(e.item)
            /\ Selectable(e.item)
            /\ ~Expandable(e.item)
            /\ CloseRan]_vars


====
